---- MODULE Spec2Model ----
(***************************************************************************)
(* Loan management application (clients, loans, installments).            *)
(*                                                                         *)
(* Money: amounts the database keeps at scale 2 (DECIMAL(10,2)) are whole  *)
(* numbers of cents.  A loan's total with interest is principal *          *)
(* (1 + rate/100); with the principal in cents and the rate in tenths of   *)
(* a percent it is the exact rational principal*(1000+rate)/1000 cents,    *)
(* kept here as the integer principal*(1000+rate) in units of 1/1000 cent. *)
(* IEEE-754 representation error of the JavaScript doubles is not          *)
(* modelled: arithmetic is exact.                                          *)
(*                                                                         *)
(* Time: a calendar date is a record [y, m, d]; an instant is a number of  *)
(* hours since 1970-01-01T00:00Z; a time zone is its UTC offset in hours   *)
(* (local = UTC + tz).                                                     *)
(***************************************************************************)
EXTENDS Integers, Sequences, FiniteSets, TLC

VARIABLES
    clients,        \* table public.clients: set of rows
    loans,          \* table public.loans: set of rows
    installments,   \* table public.installments: set of rows
    verifications,  \* table public.identity_verifications: set of rows
    nextId,         \* [clients, loans, installments, tokens |-> next fresh id]
    now,            \* the clock, in ticks (orders paid_at stamps)
    pc,             \* per browser session: the handler step it is at
    loc,            \* per browser session: the handler's local variables
    call            \* an invocation of one of the pure computations

vars == <<clients, loans, installments, verifications, nextId, now, pc, loc, call>>

dbvars == <<clients, loans, installments, verifications, nextId, now, pc, loc>>

NULL == -1

(***************************************************************************)
(* Calendar                                                                *)
(***************************************************************************)
Date(y, m, d) == [y |-> y, m |-> m, d |-> d]

IsLeap(y) == (y % 4 = 0 /\ y % 100 # 0) \/ y % 400 = 0

DaysInMonth(y, m) ==
    IF m = 2 THEN (IF IsLeap(y) THEN 29 ELSE 28)
    ELSE IF m \in {4, 6, 9, 11} THEN 30 ELSE 31

\* Days from 1970-01-01 to the date (proleptic Gregorian), as ECMAScript's
\* MakeDay computes it for a day of month inside the month.
DayNumber(date) ==
    LET yy  == IF date.m <= 2 THEN date.y - 1 ELSE date.y
        era == yy \div 400
        yoe == yy - era * 400
        mp  == IF date.m > 2 THEN date.m - 3 ELSE date.m + 9
        doy == (153 * mp + 2) \div 5 + date.d - 1
        doe == yoe * 365 + yoe \div 4 - yoe \div 100 + doy
    IN  era * 146097 + doe - 719468

NextMonth(y, m) == IF m = 12 THEN [y |-> y + 1, m |-> 1] ELSE [y |-> y, m |-> m + 1]

PrevDay(date) ==
    IF date.d > 1 THEN Date(date.y, date.m, date.d - 1)
    ELSE IF date.m > 1
         THEN Date(date.y, date.m - 1, DaysInMonth(date.y, date.m - 1))
         ELSE Date(date.y - 1, 12, 31)

\* The calendar month that is i months after the date's month.
MonthPlus(date, i) ==
    LET idx == (date.m - 1) + i
    IN  [y |-> date.y + idx \div 12, m |-> (idx % 12) + 1]

\* dueDate.setMonth(dueDate.getMonth() + i): the month index is advanced and
\* the day of month kept; a day past the end of the target month overflows
\* into the following month (Jan 31 + 1 month = "Feb 31" = Mar 2 or Mar 3).
SetMonth(date, i) ==
    LET t   == MonthPlus(date, i)
        dim == DaysInMonth(t.y, t.m)
        n   == NextMonth(t.y, t.m)
    IN  IF date.d <= dim THEN Date(t.y, t.m, date.d)
        ELSE Date(n.y, n.m, date.d - dim)

\* dueDate.toISOString().split("T")[0] of a local-midnight Date: the UTC
\* calendar date of that instant.  East of Greenwich local midnight is still
\* the previous day in UTC.
ToISODate(date, tz) == IF tz > 0 THEN PrevDay(date) ELSE date

(***************************************************************************)
(* LoanForm.onSubmit: the values it computes and the rows it sends         *)
(***************************************************************************)
\* n/d rounded to the nearest integer, halves up (Number.prototype.toFixed
\* and a numeric(10,2) column agree on this for the positive amounts here).
RoundHalfUp(n, d) == (2 * n + d) \div (2 * d)

\* const totalWithInterest = amount * (1 + interestRate / 100), in units of
\* 1/1000 cent for a principal in cents and a rate in tenths of a percent.
TotalInterestOnly(principal, rate) == principal * rate

TotalWithInterest(principal, rate) == principal * (1000 + rate)

\* What a DECIMAL(10,2) column keeps of a value given in 1/1000 cent: cents.
Decimal2(milli) == RoundHalfUp(milli, 1000)

\* parseFloat((totalWithInterest / installmentsCount).toFixed(2)), in cents.
InstallmentAmountTrunc(total, count) == total \div (1000 * count)

InstallmentAmount(total, count) == RoundHalfUp(total, 1000 * count)

\* The row onSubmit inserts into loans, as the table keeps it.
LoanRowPrincipalAsAmount(id, clientId, f) ==
    [id                 |-> id,
     client_id          |-> clientId,
     original_amount    |-> f.principal,
     amount             |-> f.principal,
     interest_rate      |-> f.rate,
     installments_count |-> f.count]

LoanRow(id, clientId, f) ==
    [id                 |-> id,
     client_id          |-> clientId,
     original_amount    |-> f.principal,
     amount             |-> Decimal2(TotalWithInterest(f.principal, f.rate)),
     interest_rate      |-> f.rate,
     installments_count |-> f.count]

\* Array.from({ length: installmentsCount }, (_, i) => ...)
BuildInstallmentsZeroBased(loanId, f) ==
    [k \in 1..f.count |->
        [loan_id            |-> loanId,
         installment_number |-> k - 1,
         amount             |-> InstallmentAmount(TotalWithInterest(f.principal, f.rate), f.count),
         due_date           |-> ToISODate(SetMonth(f.firstDueDate, k - 1), f.tz)]]

BuildInstallments(loanId, f) ==
    [k \in 1..f.count |->
        [loan_id            |-> loanId,
         installment_number |-> k,
         amount             |-> InstallmentAmount(TotalWithInterest(f.principal, f.rate), f.count),
         due_date           |-> ToISODate(SetMonth(f.firstDueDate, k - 1), f.tz)]]

\* One row of the bulk insert as the installments table keeps it: the columns
\* the request leaves out take their defaults (paid false, paid_at NULL).
InstallmentRow(id, r) ==
    [id                 |-> id,
     loan_id            |-> r.loan_id,
     installment_number |-> r.installment_number,
     amount             |-> r.amount,
     due_date           |-> r.due_date,
     paid               |-> FALSE,
     paid_at            |-> NULL]

InsertedInstallmentsRowByRow(firstId, built) ==
    {InstallmentRow(firstId + k - 1, built[k]) : k \in 1..(Len(built) - 1)}

InsertedInstallments(firstId, built) ==
    {InstallmentRow(firstId + k - 1, built[k]) : k \in 1..Len(built)}

(***************************************************************************)
(* Bounds and input sets                                                   *)
(***************************************************************************)
MinInstallments == 1
MaxInstallments == 48
MaxPrincipal == 40         \* principals of 1..MaxPrincipal cents

Sessions == {"s1", "s2"}
TimeZones == {-3, 0, 3}

ValidDates(ys, ms, ds) ==
    {Date(y, m, d) : <<y, m, d>> \in
        {t \in ys \X ms \X ds : t[3] <= DaysInMonth(t[1], t[2])}}

SchedDates == ValidDates({2023, 2024}, {1, 2, 3, 8, 12}, {1, 15, 28, 29, 30, 31})

AmountRates == {0, 1, 5, 10, 125, 333, 1000}

IdleDb ==
    /\ clients = {}
    /\ loans = {}
    /\ installments = {}
    /\ verifications = {}
    /\ nextId = [clients |-> 1, loans |-> 1, installments |-> 1, tokens |-> 1]
    /\ now = 0
    /\ pc = [s \in Sessions |-> "idle"]
    /\ loc = [s \in Sessions |-> [op |-> "none"]]

(***************************************************************************)
(* The schedule and amount computations of onSubmit as a pure pipeline:    *)
(* form values -> computed rows -> rows as stored.                         *)
(***************************************************************************)
FormCall(f) ==
    [step |-> "form", form |-> f, total |-> 0, loan |-> [id |-> 0],
     built |-> <<>>, stored |-> {}]

FormCompute ==
    /\ call.step = "form"
    /\ call' = [call EXCEPT
                  !.step  = "built",
                  !.total = TotalWithInterest(call.form.principal, call.form.rate),
                  !.loan  = LoanRow(1, 1, call.form),
                  !.built = BuildInstallments(1, call.form)]
    /\ UNCHANGED dbvars

FormInsert ==
    /\ call.step = "built"
    /\ call' = [call EXCEPT
                  !.step   = "stored",
                  !.stored = InsertedInstallments(1, call.built)]
    /\ UNCHANGED dbvars

NextForm == FormCompute \/ FormInsert

InitSched ==
    /\ IdleDb
    /\ \E c \in MinInstallments..MaxInstallments, d \in SchedDates, z \in TimeZones :
         call = FormCall([cpf |-> "c1", principal |-> 1000, rate |-> 100,
                          count |-> c, firstDueDate |-> d, tz |-> z])

SpecSched == InitSched /\ [][NextForm]_vars

InitAmount ==
    /\ IdleDb
    /\ \E p \in 1..MaxPrincipal, r \in AmountRates,
          c \in MinInstallments..MaxInstallments :
         call = FormCall([cpf |-> "c1", principal |-> p, rate |-> r,
                          count |-> c, firstDueDate |-> Date(2024, 1, 15), tz |-> -3])

SpecAmount == InitAmount /\ [][NextForm]_vars

(***************************************************************************)
(* Status derivation and overdue classification (LoansList,                *)
(* DashboardStats, OverdueAlert).  t is the instant "new Date()" returns,  *)
(* tz the browser's UTC offset.                                            *)
(***************************************************************************)
\* new Date("YYYY-MM-DD"): a date-only string is read as UTC midnight.
ParseDateOnly(due) == 24 * DayNumber(due)

\* new Date(due_date + "T00:00:00"): no offset given, so local midnight.
ParseLocalMidnight(due, tz) == 24 * DayNumber(due) - tz

\* today.setHours(0, 0, 0, 0): local midnight of the local day of t.
StartOfLocalDay(t, tz) == ((t + tz) \div 24) * 24 - tz

\* new Date().toISOString().split("T")[0]: the UTC calendar day of t,
\* as a day number.
UtcDayNumber(t) == t \div 24

\* LoansList.getLoanStatus, the copy that compares against "now".
getLoanStatusLoansList(loan, t, tz) ==
    LET today     == t
        allPaid   == \A k \in 1..Len(loan.installments) : loan.installments[k].paid
        hasOverdue == \E k \in 1..Len(loan.installments) :
                        /\ ~loan.installments[k].paid
                        /\ ParseDateOnly(loan.installments[k].due_date) < today
    IN  IF allPaid THEN "paid_off"
        ELSE IF hasOverdue THEN "overdue" ELSE "on_time"

\* LoansList.getLoanStatus, the copy that normalises to the start of day.
getLoanStatus(loan, t, tz) ==
    LET today     == StartOfLocalDay(t, tz)
        allPaid   == \A k \in 1..Len(loan.installments) : loan.installments[k].paid
        hasOverdue == \E k \in 1..Len(loan.installments) :
                        /\ ~loan.installments[k].paid
                        /\ ParseLocalMidnight(loan.installments[k].due_date, tz) < today
    IN  IF allPaid THEN "paid_off"
        ELSE IF hasOverdue THEN "overdue" ELSE "on_time"

getClientStatusNoLoansCheck(client, t, tz) ==
    LET statuses == [k \in 1..Len(client.loans) |-> getLoanStatus(client.loans[k], t, tz)]
    IN  IF \E k \in 1..Len(statuses) : statuses[k] = "overdue" THEN "overdue"
        ELSE IF \A k \in 1..Len(statuses) : statuses[k] = "paid_off" THEN "paid_off"
        ELSE "on_time"

getClientStatus(client, t, tz) ==
    LET statuses == [k \in 1..Len(client.loans) |-> getLoanStatus(client.loans[k], t, tz)]
    IN  IF Len(client.loans) = 0 THEN "no_loans"
        ELSE IF \E k \in 1..Len(statuses) : statuses[k] = "overdue" THEN "overdue"
        ELSE IF \A k \in 1..Len(statuses) : statuses[k] = "paid_off" THEN "paid_off"
        ELSE "on_time"

\* const isOverdue = !installment.paid && new Date(installment.due_date) < new Date()
isOverdue(installment, t) ==
    ~installment.paid /\ ParseDateOnly(installment.due_date) < t

\* loan.installments.filter((i) => !i.paid && new Date(i.due_date) < new Date())
overdueInstallments(loan, t) ==
    {loan.installments[k] : k \in
        {j \in 1..Len(loan.installments) :
            /\ ~loan.installments[j].paid
            /\ ParseDateOnly(loan.installments[j].due_date) < t}}

\* DashboardStats: installments.filter((i) => !i.paid && new Date(i.due_date) < today).length
overdueCount(rows, t) ==
    LET today == t
    IN  Cardinality({i \in rows : ~i.paid /\ ParseDateOnly(i.due_date) < today})

\* OverdueAlert: .eq("paid", false).lt("due_date", today), today the UTC date.
overdueData(rows, t) ==
    LET today == UtcDayNumber(t)
    IN  {i \in rows : i.paid = FALSE /\ DayNumber(i.due_date) < today}

\* All installments of the client's loans, as the installments table holds them.
InstallmentsOf(client) ==
    UNION {{client.loans[k].installments[j] : j \in 1..Len(client.loans[k].installments)}
            : k \in 1..Len(client.loans)}

MaxStatusLoans == 2        \* loans of the client whose status is derived

StatusToday == Date(2024, 3, 1)
StatusDueDates == {PrevDay(StatusToday), StatusToday, Date(2024, 3, 2)}
StatusHours == {0, 12, 23}     \* local hour of day of "now"

\* What decides an installment's classification: paid or not, and the due date.
InstallmentChoices ==
    {[paid |-> TRUE, due_date |-> PrevDay(StatusToday)]}
        \cup {[paid |-> FALSE, due_date |-> d] : d \in StatusDueDates}

\* A loan's installment list: none, one, or two of which the first was due
\* yesterday.
LoanChoices ==
    {<<>>} \cup {<<a>> : a \in InstallmentChoices}
           \cup {<<a, b>> : a \in {c \in InstallmentChoices :
                                      c.due_date = PrevDay(StatusToday)},
                             b \in InstallmentChoices}

MkLoan(loanId, choice) ==
    [id |-> loanId,
     installments |->
        [j \in 1..Len(choice) |->
            [id                 |-> 2 * loanId + j,
             loan_id            |-> loanId,
             installment_number |-> j,
             amount             |-> 5000,
             due_date           |-> choice[j].due_date,
             paid               |-> choice[j].paid,
             paid_at            |-> IF choice[j].paid THEN 0 ELSE NULL]]]

StatusCall(client, t, tz) ==
    [step |-> "data", client |-> client, t |-> t, tz |-> tz,
     done |-> {},
     loanStatus |-> <<>>, loanStatusLoansList |-> <<>>, clientStatus |-> "none",
     overdueInstallments |-> <<>>, badges |-> {},
     overdueCount |-> 0, overdueData |-> {}]

\* LoansList renders the fetched client: statuses, per-loan overdue summary
\* and per-installment badges.
RenderLoansList ==
    /\ call.step = "data"
    /\ "list" \notin call.done
    /\ call' = [call EXCEPT
         !.done = @ \cup {"list"},
         !.loanStatus = [k \in 1..Len(call.client.loans) |->
                            getLoanStatus(call.client.loans[k], call.t, call.tz)],
         !.loanStatusLoansList = [k \in 1..Len(call.client.loans) |->
                            getLoanStatusLoansList(call.client.loans[k], call.t, call.tz)],
         !.clientStatus = getClientStatus(call.client, call.t, call.tz),
         !.overdueInstallments = [k \in 1..Len(call.client.loans) |->
                            overdueInstallments(call.client.loans[k], call.t)],
         !.badges = {i \in InstallmentsOf(call.client) : isOverdue(i, call.t)}]
    /\ UNCHANGED dbvars

RenderDashboard ==
    /\ call.step = "data"
    /\ "dashboard" \notin call.done
    /\ call' = [call EXCEPT
         !.done = @ \cup {"dashboard"},
         !.overdueCount = overdueCount(InstallmentsOf(call.client), call.t)]
    /\ UNCHANGED dbvars

QueryOverdueAlert ==
    /\ call.step = "data"
    /\ "alert" \notin call.done
    /\ call' = [call EXCEPT
         !.done = @ \cup {"alert"},
         !.overdueData = overdueData(InstallmentsOf(call.client), call.t)]
    /\ UNCHANGED dbvars

NextStatus == RenderLoansList \/ RenderDashboard \/ QueryOverdueAlert

InitStatus ==
    /\ IdleDb
    /\ \E n \in 0..MaxStatusLoans, z \in TimeZones, h \in StatusHours :
         \E choice \in [1..n -> LoanChoices] :
            call = StatusCall([id |-> 1, loans |-> [k \in 1..n |-> MkLoan(k, choice[k])]],
                              24 * DayNumber(StatusToday) + h - z, z)

SpecStatus == InitStatus /\ [][NextStatus]_vars

(***************************************************************************)
(* The persisted data and the handlers that write it.  Every awaited       *)
(* request is one step; a request may fail (network, policy, constraint),  *)
(* in which case it changes nothing and returns an error.  Two browser     *)
(* sessions of the same account run handlers concurrently.                 *)
(***************************************************************************)
MaxRegistrations == 1      \* registrations start while fewer new clients and loans exist
MaxTime == 2               \* rows stamped with the clock (paid_at, created_at)

FormCounts == {2}

Cpfs == {"11111111111"}
SessionUser == [s \in Sessions |-> "u1"]
Registrars == {"s1"}      \* sessions with the registration form open

\* What is typed into the client fields of the form.
TypedContact ==
    [fullName |-> "Bia Reis", address |-> "Rua B, 2", rg |-> "20000",
     phone |-> "21900000000"]

Forms ==
    {[cpf |-> c, principal |-> 150, rate |-> r, count |-> n,
      firstDueDate |-> Date(2024, 1, 31), tz |-> -3] @@ TypedContact
        : c \in Cpfs, r \in {333}, n \in FormCounts}

\* The row of .from("clients").insert({...}).
ClientRow(id, user, f) ==
    [id |-> id, user_id |-> user, cpf |-> f.cpf, full_name |-> f.fullName,
     address |-> f.address, rg |-> f.rg, phone |-> f.phone]

\* if (existingClient) clientId = existingClient.id: the row stays as it is.
ReuseClientOverwritten(existingClient, f) ==
    ClientRow(existingClient.id, existingClient.user_id, f)

ReuseClient(existingClient, f) == existingClient

\* A loan registered before the original_amount / interest_rate columns
\* existed, with its client and installment, as the migration leaves it:
\* UPDATE loans SET original_amount = amount, interest_rate = 0.
LegacyClient ==
    [id |-> 0, user_id |-> "u1", cpf |-> "11111111111", full_name |-> "Ana Lima",
     address |-> "Rua A, 1", rg |-> "10000", phone |-> "11900000000"]

MigratedLoan(row) ==
    [id                 |-> row.id,
     client_id          |-> row.client_id,
     original_amount    |-> row.amount,
     amount             |-> row.amount,
     interest_rate      |-> 0,
     installments_count |-> row.installments_count]

LegacyLoan ==
    MigratedLoan([id |-> 0, client_id |-> 0, amount |-> 1000, installments_count |-> 1])

LegacyInstallments ==
    {[id |-> 0, loan_id |-> 0, installment_number |-> 1, amount |-> 1000,
      due_date |-> Date(2024, 1, 10), paid |-> FALSE, paid_at |-> NULL]}

Idle == [op |-> "none"]

\* The state of the LoanForm of each session: the user of useAuth() (NoUser
\* when nobody is logged in), isLoading, the calls of onSuccess so far and
\* the last toast shown.
NoUser == "nobody"

FormUi(user) ==
    [step |-> "none", user |-> user,
     isLoading |-> [s \in Sessions |-> FALSE],
     onSuccess |-> [s \in Sessions |-> 0],
     toast |-> [s \in Sessions |-> "none"]]

\* catch: the error toast; finally: setIsLoading(false).
CatchFinallyStillLoading(ui, s) == [ui EXCEPT !.toast[s] = "error"]

CatchFinally(ui, s) == [ui EXCEPT !.toast[s] = "error", !.isLoading[s] = FALSE]

\* The end of try: the success toast, form.reset(), onSuccess(); then finally.
SuccessFinally(ui, s) ==
    [ui EXCEPT !.toast[s] = "success", !.onSuccess[s] = @ + 1, !.isLoading[s] = FALSE]

InitDb ==
    /\ clients = {LegacyClient}
    /\ loans = {LegacyLoan}
    /\ installments = LegacyInstallments
    /\ nextId = [clients |-> 1, loans |-> 1, installments |-> 1, tokens |-> 1]
    /\ verifications = {}
    /\ now = 0
    /\ pc = [s \in Sessions |-> "idle"]
    /\ loc = [s \in Sessions |-> Idle]
    /\ call = FormUi(SessionUser)

\* Row-level policies: a client row is the user's when user_id = auth.uid();
\* a loan through its client; an installment through its loan.
OwnsClientAllowAll(u, c) == TRUE

OwnsClient(u, c) == c.user_id = u
OwnsLoan(u, l) == \E c \in clients : c.id = l.client_id /\ OwnsClient(u, c)
OwnsInstallment(u, i) == \E l \in loans : l.id = i.loan_id /\ OwnsLoan(u, l)

\* ON DELETE CASCADE, loans -> installments, identity_verifications: what is
\* left of the two tables when the loans left have the given ids.
InstallmentsNoCascade(ids) == installments

InstallmentsWithoutLoans(ids) == {i \in installments : i.loan_id \in ids}
VerificationsWithoutLoans(ids) == {v \in verifications : v.loan_id \in ids}

Return(s) ==
    /\ pc' = [pc EXCEPT ![s] = "idle"]
    /\ loc' = [loc EXCEPT ![s] = Idle]

\* ---- LoanForm.onSubmit ------------------------------------------------
Submit(s, f) ==
    /\ pc[s] = "idle"
    /\ call.user[s] # NoUser
    /\ nextId.loans <= MaxRegistrations
    /\ nextId.clients <= MaxRegistrations
    /\ pc' = [pc EXCEPT ![s] = "lookup_client"]
    /\ loc' = [loc EXCEPT ![s] = [op |-> "register", form |-> f,
                                  clientId |-> NULL, loanId |-> NULL]]
    /\ call' = [call EXCEPT !.isLoading[s] = TRUE]
    /\ UNCHANGED <<clients, loans, installments, verifications, nextId, now>>

\* if (!user): the toast, and nothing else.
SubmitLoggedOut(s, f) ==
    /\ pc[s] = "idle"
    /\ call.user[s] = NoUser
    /\ call' = [call EXCEPT !.toast[s] = "login"]
    /\ UNCHANGED dbvars

\* 1. select from clients where cpf = .. and user_id = ..; maybeSingle().
\* The error of the request is not read: a failed lookup looks like "no
\* such client".
LookupClient(s, ok) ==
    /\ pc[s] = "lookup_client"
    /\ LET existing == {c \in clients : /\ c.cpf = loc[s].form.cpf
                                       /\ c.user_id = SessionUser[s]
                                       /\ OwnsClient(SessionUser[s], c)}
           existingClient == CHOOSE c \in existing : TRUE
       IN  IF ok /\ existing # {}
           THEN /\ pc' = [pc EXCEPT ![s] = "insert_loan"]
                /\ loc' = [loc EXCEPT ![s].clientId = existingClient.id]
                /\ clients' = (clients \ {existingClient})
                                 \cup {ReuseClient(existingClient, loc[s].form)}
           ELSE /\ pc' = [pc EXCEPT ![s] = "insert_client"]
                /\ UNCHANGED <<loc, clients>>
    /\ UNCHANGED <<loans, installments, verifications, nextId, now, call>>

\* insert into clients; the unique index (cpf, user_id) rejects a duplicate.
InsertClient(s, ok) ==
    /\ pc[s] = "insert_client"
    /\ IF /\ ok
          /\ ~\E c \in clients : c.cpf = loc[s].form.cpf /\ c.user_id = SessionUser[s]
       THEN /\ clients' = clients \cup
                  {ClientRow(nextId.clients, SessionUser[s], loc[s].form)}
            /\ nextId' = [nextId EXCEPT !.clients = @ + 1]
            /\ pc' = [pc EXCEPT ![s] = "insert_loan"]
            /\ loc' = [loc EXCEPT ![s].clientId = nextId.clients]
            /\ UNCHANGED call
       ELSE /\ Return(s)
            /\ call' = CatchFinally(call, s)
            /\ UNCHANGED <<clients, nextId>>
    /\ UNCHANGED <<loans, installments, verifications, now>>

\* 2. insert into loans; needs the client row (foreign key, insert policy).
InsertLoan(s, ok) ==
    /\ pc[s] = "insert_loan"
    /\ IF /\ ok
          /\ \E c \in clients : c.id = loc[s].clientId /\ OwnsClient(SessionUser[s], c)
       THEN /\ loans' = loans \cup {LoanRow(nextId.loans, loc[s].clientId, loc[s].form)}
            /\ nextId' = [nextId EXCEPT !.loans = @ + 1]
            /\ pc' = [pc EXCEPT ![s] = "insert_installments"]
            /\ loc' = [loc EXCEPT ![s].loanId = nextId.loans]
            /\ UNCHANGED call
       ELSE /\ Return(s)
            /\ call' = CatchFinally(call, s)
            /\ UNCHANGED <<loans, nextId>>
    /\ UNCHANGED <<clients, installments, verifications, now>>

\* 3. one bulk insert of the generated rows; needs the loan row.
InsertInstallments(s, ok) ==
    /\ pc[s] = "insert_installments"
    /\ IF /\ ok
          /\ \E l \in loans : l.id = loc[s].loanId /\ OwnsLoan(SessionUser[s], l)
       THEN /\ installments' = installments \cup
                  InsertedInstallments(nextId.installments,
                                       BuildInstallments(loc[s].loanId, loc[s].form))
            /\ nextId' = [nextId EXCEPT !.installments = @ + loc[s].form.count]
            /\ call' = SuccessFinally(call, s)
       ELSE /\ call' = CatchFinally(call, s)
            /\ UNCHANGED <<installments, nextId>>
    /\ Return(s)
    /\ UNCHANGED <<clients, loans, verifications, now>>

\* ---- LoansList handlers -----------------------------------------------
\* .update({ paid: true, paid_at: new Date().toISOString() }) on one row.
PaidRowNoStamp(i, t) == [i EXCEPT !.paid = TRUE]

PaidRowRedated(i, t) ==
    [i EXCEPT !.paid = TRUE, !.paid_at = t, !.due_date = Date(2024, 1, 1)]

PaidRow(i, t) == [i EXCEPT !.paid = TRUE, !.paid_at = t]

\* update installments set paid = true, paid_at = now where id = ..
\* The id comes from a list that may be stale: any installment ever listed.
handlePayInstallment(s, id, ok) ==
    /\ pc[s] = "idle"
    /\ id \in 0..(nextId.installments - 1)
    /\ now < MaxTime
    /\ IF ok
       THEN /\ installments' =
                  {IF i.id = id /\ OwnsInstallment(SessionUser[s], i)
                   THEN PaidRow(i, now + 1)
                   ELSE i : i \in installments}
            /\ now' = now + 1
       ELSE UNCHANGED <<installments, now>>
    /\ UNCHANGED <<clients, loans, verifications, nextId, pc, loc, call>>

\* The confirm dialog of a listed loan: its button holds loan.id, client.id
\* and client.loans.length as they were when the list was rendered.
RenderDeleteLoan(s, l) ==
    /\ pc[s] = "idle"
    /\ l \in loans
    /\ OwnsLoan(SessionUser[s], l)
    /\ pc' = [pc EXCEPT ![s] = "delete_loan"]
    /\ loc' = [loc EXCEPT ![s] =
                 [op |-> "delete_loan", loanId |-> l.id, clientId |-> l.client_id,
                  totalLoans |-> Cardinality({x \in loans : x.client_id = l.client_id})]]
    /\ UNCHANGED <<clients, loans, installments, verifications, nextId, now, call>>

\* handleDeleteLoan, first request: delete from loans where id = loanId.
DeleteLoan(s, ok) ==
    /\ pc[s] = "delete_loan"
    /\ IF ok
       THEN /\ loans' = {l \in loans : ~(l.id = loc[s].loanId /\ OwnsLoan(SessionUser[s], l))}
            /\ installments' = InstallmentsWithoutLoans({l.id : l \in loans'})
            /\ verifications' = VerificationsWithoutLoans({l.id : l \in loans'})
            /\ IF loc[s].totalLoans = 1
               THEN pc' = [pc EXCEPT ![s] = "delete_client"] /\ UNCHANGED loc
               ELSE Return(s)
       ELSE /\ Return(s)
            /\ UNCHANGED <<loans, installments, verifications>>
    /\ UNCHANGED <<clients, nextId, now, call>>

\* handleDeleteLoan, second request (totalLoans === 1): delete the client;
\* its result is not read.
DeleteLoanClient(s, ok) ==
    /\ pc[s] = "delete_client"
    /\ IF ok
       THEN /\ clients' = {c \in clients :
                            ~(c.id = loc[s].clientId /\ OwnsClient(SessionUser[s], c))}
            /\ loans' = {l \in loans : \E c \in clients' : c.id = l.client_id}
            /\ installments' = InstallmentsWithoutLoans({l.id : l \in loans'})
            /\ verifications' = VerificationsWithoutLoans({l.id : l \in loans'})
       ELSE UNCHANGED <<clients, loans, installments, verifications>>
    /\ Return(s)
    /\ UNCHANGED <<nextId, now, call>>

\* delete from clients where id = clientId (any client ever listed).
handleDeleteClient(s, id, ok) ==
    /\ pc[s] = "idle"
    /\ id \in 0..(nextId.clients - 1)
    /\ IF ok
       THEN /\ clients' = {c \in clients : ~(c.id = id /\ OwnsClient(SessionUser[s], c))}
            /\ loans' = {l \in loans : \E c \in clients' : c.id = l.client_id}
            /\ installments' = InstallmentsWithoutLoans({l.id : l \in loans'})
            /\ verifications' = VerificationsWithoutLoans({l.id : l \in loans'})
       ELSE UNCHANGED <<clients, loans, installments, verifications>>
    /\ UNCHANGED <<nextId, now, pc, loc, call>>

\* insert into identity_verifications (loan_id, token, status 'pending');
\* created_at defaults to now().
handleSendVerification(s, loanId, ok) ==
    /\ pc[s] = "idle"
    /\ loanId \in 0..(nextId.loans - 1)
    /\ now < MaxTime
    /\ IF ok /\ \E l \in loans : l.id = loanId /\ OwnsLoan(SessionUser[s], l)
       THEN /\ verifications' = verifications \cup
                  {[token |-> nextId.tokens, loan_id |-> loanId, status |-> "pending",
                    photo_url |-> NULL, created_at |-> now + 1,
                    verified_at |-> NULL]}
            /\ nextId' = [nextId EXCEPT !.tokens = @ + 1]
            /\ now' = now + 1
       ELSE UNCHANGED <<verifications, nextId, now>>
    /\ UNCHANGED <<clients, loans, installments, pc, loc, call>>

Next ==
    \E s \in Sessions, ok \in BOOLEAN :
        \/ \E f \in Forms : s \in Registrars /\ Submit(s, f)
        \/ LookupClient(s, ok)
        \/ InsertClient(s, ok)
        \/ InsertLoan(s, ok)
        \/ InsertInstallments(s, ok)
        \/ \E id \in 0..(nextId.installments - 1) : handlePayInstallment(s, id, ok)
        \/ \E l \in loans : RenderDeleteLoan(s, l)
        \/ DeleteLoan(s, ok)
        \/ DeleteLoanClient(s, ok)
        \/ \E id \in 0..(nextId.clients - 1) : handleDeleteClient(s, id, ok)
        \/ \E id \in 0..(nextId.loans - 1) : handleSendVerification(s, id, ok)

Spec == InitDb /\ [][Next]_vars

(***************************************************************************)
(* Registrations racing each other.  Both sessions of the account have the *)
(* form open; another account already holds a client with the same CPF,    *)
(* with a loan, an installment and a pending verification.                 *)
(***************************************************************************)
OtherClient == [LegacyClient EXCEPT !.user_id = "u2", !.full_name = "Caio Luz"]

OtherLoan ==
    [id |-> 0, client_id |-> 0, original_amount |-> 1000, amount |-> 1100,
     interest_rate |-> 100, installments_count |-> 1]

OtherInstallments ==
    {[id |-> 0, loan_id |-> 0, installment_number |-> 1, amount |-> 1100,
      due_date |-> Date(2024, 1, 10), paid |-> FALSE, paid_at |-> NULL]}

OtherVerifications ==
    {[token |-> 0, loan_id |-> 0, status |-> "pending", photo_url |-> NULL,
      created_at |-> 0, verified_at |-> NULL]}

InitOther ==
    /\ clients = {OtherClient}
    /\ loans = {OtherLoan}
    /\ installments = OtherInstallments
    /\ verifications = OtherVerifications
    /\ nextId = [clients |-> 1, loans |-> 1, installments |-> 1, tokens |-> 1]
    /\ now = 0
    /\ pc = [s \in Sessions |-> "idle"]
    /\ loc = [s \in Sessions |-> Idle]
    /\ call = FormUi(SessionUser)

RegisterCpfs == Cpfs \cup {"22222222222"}

\* Two people's data typed with a CPF.
RegisterForms ==
    {[cpf |-> c, principal |-> 150, rate |-> 333, count |-> n,
      firstDueDate |-> Date(2024, 1, 31), tz |-> -3] @@ contact
        : c \in RegisterCpfs, n \in FormCounts,
          contact \in {TypedContact,
                       [fullName |-> "Davi Sol", address |-> "Rua D, 4",
                        rg |-> "40000", phone |-> "41900000000"]}}

\* Every request reaches the database; what fails, fails on a constraint.
NextRegister ==
    \E s \in Sessions :
        \/ \E f \in RegisterForms : Submit(s, f)
        \/ LookupClient(s, TRUE)
        \/ InsertClient(s, TRUE)
        \/ InsertLoan(s, TRUE)
        \/ InsertInstallments(s, TRUE)

SpecRegister == InitOther /\ [][NextRegister]_vars

\* The form in sessions that may be logged out; any request may fail.
InitSubmit ==
    /\ clients = {LegacyClient}
    /\ loans = {LegacyLoan}
    /\ installments = LegacyInstallments
    /\ nextId = [clients |-> 1, loans |-> 1, installments |-> 1, tokens |-> 1]
    /\ verifications = {}
    /\ now = 0
    /\ pc = [s \in Sessions |-> "idle"]
    /\ loc = [s \in Sessions |-> Idle]
    /\ \E user \in [Sessions -> {"u1", NoUser}] : call = FormUi(user)

NextSubmit ==
    \E s \in Sessions, ok \in BOOLEAN :
        \/ \E f \in RegisterForms : Submit(s, f)
        \/ \E f \in RegisterForms : SubmitLoggedOut(s, f)
        \/ LookupClient(s, ok)
        \/ InsertClient(s, ok)
        \/ InsertLoan(s, ok)
        \/ InsertInstallments(s, ok)

SpecSubmit == InitSubmit /\ [][NextSubmit]_vars

(***************************************************************************)
(* The verify-identity function and the page that calls it.  The clock is  *)
(* in days; visitors send GET and POST requests for a token, two at a      *)
(* time.  `call` holds the last response given.                            *)
(***************************************************************************)
ExpiryDays == 7

VerifyInstants == {6, 7, 8}               \* days the clock moves on to
VerifyTokens == {NULL, 1, 2}              \* no token, the stored token, an unknown one
Photos == {NULL, 1, 2}                    \* no photo_url, two different URLs

PendingVerification ==
    [token |-> 1, loan_id |-> 0, status |-> "pending", photo_url |-> NULL,
     created_at |-> 0, verified_at |-> NULL]

\* daysDiff > 7
ExpiredNever(created, t) == FALSE

Expired(created, t) == t - created > ExpiryDays

Response(method, token, t, dbError, code, status, valid) ==
    [step |-> "response", method |-> method, token |-> token, t |-> t,
     dbError |-> dbError, code |-> code, status |-> status, valid |-> valid,
     page |-> "none"]

\* The GET branch: the row read (rows holds it, or is empty), then the answer.
GetResponse(token, rows, t, ok) ==
    IF token = NULL THEN Response("GET", token, t, FALSE, 400, "none", FALSE)
    ELSE IF ~ok \/ rows = {} THEN Response("GET", token, t, ~ok, 404, "none", FALSE)
    ELSE LET data == CHOOSE v \in rows : TRUE
         IN  IF Expired(data.created_at, t)
             THEN Response("GET", token, t, FALSE, 410, "expired", FALSE)
             ELSE Response("GET", token, t, FALSE, 200, data.status,
                           data.status = "pending")

\* checkVerificationStatus: the page status after the GET.
PageStatusPendingUnlessCompleted(token, r) ==
    IF r.code = 200 /\ r.status = "completed" THEN "completed" ELSE "pending"

PageStatus(token, r) ==
    IF token = NULL THEN "not_found"
    ELSE IF r.code = 404 THEN "not_found"
    ELSE IF r.code = 410 THEN "expired"
    ELSE IF r.code # 200 THEN "not_found"
    ELSE IF r.status = "completed" THEN "completed"
    ELSE IF r.valid THEN "pending"
    ELSE "not_found"

\* update ... set photo_url, status = 'completed', verified_at
\*   where token = .. and status = 'pending'
UpdateByTokenOnly(token, photo, t) ==
    {IF v.token = token
     THEN [v EXCEPT !.photo_url = photo, !.status = "completed", !.verified_at = t]
     ELSE v : v \in verifications}

UpdatePending(token, photo, t) ==
    {IF v.token = token /\ v.status = "pending"
     THEN [v EXCEPT !.photo_url = photo, !.status = "completed", !.verified_at = t]
     ELSE v : v \in verifications}

InitVerify ==
    /\ clients = {LegacyClient}
    /\ loans = {LegacyLoan}
    /\ installments = LegacyInstallments
    /\ verifications = {PendingVerification}
    /\ nextId = [clients |-> 1, loans |-> 1, installments |-> 1, tokens |-> 2]
    /\ now = 0
    /\ pc = [s \in Sessions |-> "idle"]
    /\ loc = [s \in Sessions |-> Idle]
    /\ call = [step |-> "none"]

\* GET ?token=..: one select, then the answer; the page sets its status.
VerifyGet(s, token, ok) ==
    /\ pc[s] = "idle"
    /\ LET r == GetResponse(token, {v \in verifications : v.token = token}, now, ok)
       IN  call' = [r EXCEPT !.page = PageStatus(token, r)]
    /\ UNCHANGED <<clients, loans, installments, verifications, nextId, now, pc, loc>>

\* POST ?token=.. {photo_url}: up to the select and the checks on its row.
VerifyPostFetch(s, token, photo, ok) ==
    /\ pc[s] = "idle"
    /\ LET rows == {v \in verifications : v.token = token}
           Answer(dbError, code) ==
               /\ call' = Response("POST", token, now, dbError, code, "none", FALSE)
               /\ UNCHANGED <<pc, loc>>
       IN  IF token = NULL \/ photo = NULL THEN Answer(FALSE, 400)
           ELSE IF ~ok \/ rows = {} THEN Answer(~ok, 404)
           ELSE LET verification == CHOOSE v \in rows : TRUE
                IN  IF verification.status # "pending" THEN Answer(FALSE, 400)
                    ELSE IF Expired(verification.created_at, now) THEN Answer(FALSE, 410)
                    ELSE /\ pc' = [pc EXCEPT ![s] = "verify_update"]
                         /\ loc' = [loc EXCEPT ![s] =
                                      [op |-> "verify", token |-> token,
                                       photo |-> photo, checkedAt |-> now]]
                         /\ UNCHANGED call
    /\ UNCHANGED <<clients, loans, installments, verifications, nextId, now>>

\* POST, the conditional update and the answer: 500 on an update error, else
\* 200 "Verification completed".
VerifyPostUpdate(s, ok) ==
    /\ pc[s] = "verify_update"
    /\ IF ok
       THEN /\ verifications' = UpdatePending(loc[s].token, loc[s].photo, now)
            /\ call' = Response("POST", loc[s].token, now, FALSE, 200, "none", FALSE)
       ELSE /\ UNCHANGED verifications
            /\ call' = Response("POST", loc[s].token, now, TRUE, 500, "none", FALSE)
    /\ Return(s)
    /\ UNCHANGED <<clients, loans, installments, nextId, now>>

\* Time passes.
Tick(t) ==
    /\ t > now
    /\ now' = t
    /\ UNCHANGED <<clients, loans, installments, verifications, nextId, pc, loc, call>>

NextVerify ==
    \/ \E s \in Sessions, ok \in BOOLEAN :
          \/ \E token \in VerifyTokens : VerifyGet(s, token, ok)
          \/ \E token \in VerifyTokens, photo \in Photos :
                VerifyPostFetch(s, token, photo, ok)
          \/ VerifyPostUpdate(s, ok)
    \/ \E t \in VerifyInstants : Tick(t)

SpecVerify == InitVerify /\ [][NextVerify]_vars

(***************************************************************************)
(* The row-level policies on clients, loans and installments, under        *)
(* arbitrary requests of two accounts: any authenticated user may send any *)
(* select, insert, update or delete; the policies decide what it reaches.  *)
(* `call` holds the last request and the rows a select returned.           *)
(***************************************************************************)
Users == {"u1", "u2"}
ApiNewIds == {2}          \* ids an insert of this section may hand out

\* The rows of the second account, next to the first account's rows.
InitPolicies ==
    /\ clients = {LegacyClient, [OtherClient EXCEPT !.id = 1]}
    /\ loans = {LegacyLoan, [OtherLoan EXCEPT !.id = 1, !.client_id = 1]}
    /\ installments = LegacyInstallments \cup
                         {[i EXCEPT !.id = 1, !.loan_id = 1] : i \in OtherInstallments}
    /\ verifications = {}
    /\ nextId = [clients |-> 2, loans |-> 2, installments |-> 2, tokens |-> 1]
    /\ now = 0
    /\ pc = [s \in Sessions |-> "idle"]
    /\ loc = [s \in Sessions |-> Idle]
    /\ call = [step |-> "none"]

Request(u, op, id) ==
    [step |-> "api", user |-> u, op |-> op, id |-> id,
     seen |-> [clients |-> {}, loans |-> {}, installments |-> {}]]

\* select * from clients / loans / installments: the rows the SELECT
\* policies let through.
ApiSelect(u) ==
    /\ call' = [Request(u, "select", NULL) EXCEPT !.seen =
                  [clients      |-> {c \in clients : OwnsClient(u, c)},
                   loans        |-> {l \in loans : OwnsLoan(u, l)},
                   installments |-> {i \in installments : OwnsInstallment(u, i)}]]
    /\ UNCHANGED dbvars

\* insert into clients (user_id, cpf): WITH CHECK (auth.uid() = user_id),
\* and the unique index on (cpf, user_id).
ApiInsertClient(u, owner, cpf) ==
    /\ nextId.clients \in ApiNewIds
    /\ LET row == ClientRow(nextId.clients, owner, [cpf |-> cpf] @@ TypedContact)
       IN  IF OwnsClient(u, row)
              /\ ~\E c \in clients : c.cpf = cpf /\ c.user_id = owner
           THEN /\ clients' = clients \cup {row}
                /\ nextId' = [nextId EXCEPT !.clients = @ + 1]
           ELSE UNCHANGED <<clients, nextId>>
    /\ call' = Request(u, "insert_client", nextId.clients)
    /\ UNCHANGED <<loans, installments, verifications, now, pc, loc>>

\* insert into loans (client_id, ..): the foreign key and the INSERT policy.
ApiInsertLoan(u, clientId) ==
    /\ nextId.loans \in ApiNewIds
    /\ LET row == [LegacyLoan EXCEPT !.id = nextId.loans, !.client_id = clientId]
       IN  IF \E c \in clients : c.id = clientId /\ OwnsClient(u, c)
           THEN /\ loans' = loans \cup {row}
                /\ nextId' = [nextId EXCEPT !.loans = @ + 1]
           ELSE UNCHANGED <<loans, nextId>>
    /\ call' = Request(u, "insert_loan", nextId.loans)
    /\ UNCHANGED <<clients, installments, verifications, now, pc, loc>>

\* insert into installments (loan_id, ..).
ApiInsertInstallment(u, loanId) ==
    /\ nextId.installments \in ApiNewIds
    /\ LET row == [id |-> nextId.installments, loan_id |-> loanId,
                   installment_number |-> 1, amount |-> 1000,
                   due_date |-> Date(2024, 1, 10), paid |-> FALSE, paid_at |-> NULL]
       IN  IF \E l \in loans : l.id = loanId /\ OwnsLoan(u, l)
           THEN /\ installments' = installments \cup {row}
                /\ nextId' = [nextId EXCEPT !.installments = @ + 1]
           ELSE UNCHANGED <<installments, nextId>>
    /\ call' = Request(u, "insert_installment", nextId.installments)
    /\ UNCHANGED <<clients, loans, verifications, now, pc, loc>>

\* update clients set user_id = owner where id = ..: USING on the stored
\* row; without WITH CHECK the same expression is applied to the new row.
ApiUpdateClient(u, id, owner) ==
    /\ clients' = {IF c.id = id /\ OwnsClient(u, c) /\ OwnsClient(u, [c EXCEPT !.user_id = owner])
                   THEN [c EXCEPT !.user_id = owner]
                   ELSE c : c \in clients}
    /\ call' = Request(u, "update_client", id)
    /\ UNCHANGED <<loans, installments, verifications, nextId, now, pc, loc>>

\* update loans set client_id = .. where id = ..
ApiUpdateLoan(u, id, clientId) ==
    /\ loans' = {IF /\ l.id = id
                    /\ OwnsLoan(u, l)
                    /\ OwnsLoan(u, [l EXCEPT !.client_id = clientId])
                 THEN [l EXCEPT !.client_id = clientId]
                 ELSE l : l \in loans}
    /\ call' = Request(u, "update_loan", id)
    /\ UNCHANGED <<clients, installments, verifications, nextId, now, pc, loc>>

\* update installments set paid = .. where id = ..
ApiUpdateInstallment(u, id, paid) ==
    /\ installments' = {IF i.id = id /\ OwnsInstallment(u, i)
                        THEN [i EXCEPT !.paid = paid]
                        ELSE i : i \in installments}
    /\ call' = Request(u, "update_installment", id)
    /\ UNCHANGED <<clients, loans, verifications, nextId, now, pc, loc>>

\* delete from clients where id = ..; loans and installments cascade.
ApiDeleteClient(u, id) ==
    /\ clients' = {c \in clients : ~(c.id = id /\ OwnsClient(u, c))}
    /\ loans' = {l \in loans : \E c \in clients' : c.id = l.client_id}
    /\ installments' = InstallmentsWithoutLoans({l.id : l \in loans'})
    /\ call' = Request(u, "delete_client", id)
    /\ UNCHANGED <<verifications, nextId, now, pc, loc>>

\* delete from loans where id = ..
ApiDeleteLoan(u, id) ==
    /\ loans' = {l \in loans : ~(l.id = id /\ OwnsLoan(u, l))}
    /\ installments' = InstallmentsWithoutLoans({l.id : l \in loans'})
    /\ call' = Request(u, "delete_loan", id)
    /\ UNCHANGED <<clients, verifications, nextId, now, pc, loc>>

\* delete from installments where id = ..
ApiDeleteInstallment(u, id) ==
    /\ installments' = {i \in installments : ~(i.id = id /\ OwnsInstallment(u, i))}
    /\ call' = Request(u, "delete_installment", id)
    /\ UNCHANGED <<clients, loans, verifications, nextId, now, pc, loc>>

NextPolicies ==
    \E u \in Users :
        \/ ApiSelect(u)
        \/ \E owner \in Users, cpf \in Cpfs : ApiInsertClient(u, owner, cpf)
        \/ \E id \in 0..(nextId.clients - 1) : ApiInsertLoan(u, id)
        \/ \E id \in 0..(nextId.loans - 1) : ApiInsertInstallment(u, id)
        \/ \E id \in 0..(nextId.clients - 1), owner \in Users : ApiUpdateClient(u, id, owner)
        \/ \E id \in 0..(nextId.loans - 1), c \in 0..(nextId.clients - 1) :
              ApiUpdateLoan(u, id, c)
        \/ \E id \in 0..(nextId.installments - 1), paid \in BOOLEAN :
              ApiUpdateInstallment(u, id, paid)
        \/ \E id \in 0..(nextId.clients - 1) : ApiDeleteClient(u, id)
        \/ \E id \in 0..(nextId.loans - 1) : ApiDeleteLoan(u, id)
        \/ \E id \in 0..(nextId.installments - 1) : ApiDeleteInstallment(u, id)

SpecPolicies == InitPolicies /\ [][NextPolicies]_vars

(***************************************************************************)
(* OverdueAlert: the query over the installments of several clients and    *)
(* the grouping of its rows by client.                                     *)
(***************************************************************************)
AlertClients ==
    {[LegacyClient EXCEPT !.id = 1],
     [LegacyClient EXCEPT !.id = 2, !.cpf = "22222222222", !.full_name = "Bia Reis"]}

\* Two loans of client 1, one loan of client 2.
AlertLoans ==
    {[LegacyLoan EXCEPT !.id = 1, !.client_id = 1, !.amount = 5000, !.original_amount = 5000],
     [LegacyLoan EXCEPT !.id = 2, !.client_id = 1, !.amount = 5000, !.original_amount = 5000],
     [LegacyLoan EXCEPT !.id = 3, !.client_id = 2, !.amount = 3000, !.original_amount = 3000]}

\* loans!inner ( client_id, clients!inner ( id, .. ) ): the row with the
\* client it is joined to.
JoinClient(i) ==
    LET loan   == CHOOSE l \in loans : l.id = i.loan_id
        client == CHOOSE c \in clients : c.id = loan.client_id
    IN  [id |-> i.id, amount |-> i.amount, due_date |-> i.due_date,
         installment_number |-> i.installment_number, loan_id |-> i.loan_id,
         loans |-> [id |-> loan.id, client_id |-> loan.client_id,
                    clients |-> [id |-> client.id]]]

\* overdueData.reduce((acc, installment) => ..., {}): one step of the
\* reduction, then the reduction over the rows in some order.
GroupStepByLoan(acc, installment) ==
    LET clientId == installment.loans.id
        old == IF clientId \in DOMAIN acc THEN acc[clientId]
               ELSE [count |-> 0, total |-> 0]
    IN  [k \in DOMAIN acc \cup {clientId} |->
            IF k = clientId
            THEN [count |-> old.count + 1, total |-> old.total + installment.amount]
            ELSE acc[k]]

GroupStep(acc, installment) ==
    LET clientId == installment.loans.clients.id
        old == IF clientId \in DOMAIN acc THEN acc[clientId]
               ELSE [count |-> 0, total |-> 0]
    IN  [k \in DOMAIN acc \cup {clientId} |->
            IF k = clientId
            THEN [count |-> old.count + 1, total |-> old.total + installment.amount]
            ELSE acc[k]]

RECURSIVE Reduce(_, _)
Reduce(rows, acc) ==
    IF rows = {} THEN acc
    ELSE LET installment == CHOOSE i \in rows : TRUE
         IN  Reduce(rows \ {installment}, GroupStep(acc, installment))

clientsWithOverdue(rows) == Reduce(rows, <<>>)

InitAlert ==
    /\ clients = AlertClients
    /\ loans = AlertLoans
    /\ \E choice \in [AlertLoans -> InstallmentChoices] :
          installments =
              {[id |-> l.id, loan_id |-> l.id, installment_number |-> 1,
                amount |-> l.amount, due_date |-> choice[l].due_date,
                paid |-> choice[l].paid,
                paid_at |-> IF choice[l].paid THEN 0 ELSE NULL] : l \in AlertLoans}
    /\ verifications = {}
    /\ nextId = [clients |-> 3, loans |-> 4, installments |-> 4, tokens |-> 1]
    /\ \E z \in TimeZones, h \in StatusHours : now = 24 * DayNumber(StatusToday) + h - z
    /\ pc = [s \in Sessions |-> "idle"]
    /\ loc = [s \in Sessions |-> Idle]
    /\ call = [step |-> "none"]

\* queryFn: the rows of the query, each with its joined loan and client.
FetchOverdueAlert ==
    /\ call.step = "none"
    /\ call' = [step |-> "alert_data",
                overdueData |-> {JoinClient(i) : i \in overdueData(installments, now)}]
    /\ UNCHANGED dbvars

\* The render: grouping by client.
GroupOverdueAlert ==
    /\ call.step = "alert_data"
    /\ call' = [step |-> "alert_groups", overdueData |-> call.overdueData,
                clientsWithOverdue |-> clientsWithOverdue(call.overdueData)]
    /\ UNCHANGED dbvars

NextAlert == FetchOverdueAlert \/ GroupOverdueAlert

SpecAlert == InitAlert /\ [][NextAlert]_vars

(***************************************************************************)
(* formSchema and the numbers onSubmit parses from the form's strings.     *)
(* A string is a sequence of characters; a number is NaN, an infinity or   *)
(* the exact fraction num / den with a sign.                               *)
(***************************************************************************)
MaxLen == 4

HexDigits ==
    <<"0", "1", "2", "3", "4", "5", "6", "7", "8", "9", "a", "b", "c", "d", "e", "f">>

DigitValue(c) == (CHOOSE k \in 1..Len(HexDigits) : HexDigits[k] = c) - 1

IsDigit(c, radix) == \E k \in 1..radix : HexDigits[k] = c

StartsWith(s, prefix) ==
    /\ Len(s) >= Len(prefix)
    /\ SubSeq(s, 1, Len(prefix)) = prefix

\* The length of the longest prefix of s made of digits of the radix.
RECURSIVE DigitPrefix(_, _)
DigitPrefix(s, radix) ==
    IF s = <<>> \/ ~IsDigit(Head(s), radix) THEN 0
    ELSE 1 + DigitPrefix(Tail(s), radix)

RECURSIVE DigitsValue(_, _)
DigitsValue(s, radix) ==
    IF s = <<>> THEN 0
    ELSE radix * DigitsValue(SubSeq(s, 1, Len(s) - 1), radix) + DigitValue(s[Len(s)])

RECURSIVE Pow10(_)
Pow10(n) == IF n = 0 THEN 1 ELSE 10 * Pow10(n - 1)

NaN == [nan |-> TRUE, inf |-> FALSE, neg |-> FALSE, num |-> 0, den |-> 1]

Number(neg, num, den) == [NaN EXCEPT !.nan = FALSE, !.neg = neg, !.num = num, !.den = den]

\* parseInt(val) without a radix: a sign, then 0x and hexadecimal digits or
\* decimal digits; what follows the digits is ignored, no digit is NaN.
parseInt(val) ==
    LET signed == val # <<>> /\ Head(val) \in {"-", "+"}
        neg   == signed /\ Head(val) = "-"
        rest  == IF signed THEN Tail(val) ELSE val
        hex   == StartsWith(rest, <<"0", "x">>) \/ StartsWith(rest, <<"0", "X">>)
        radix == IF hex THEN 16 ELSE 10
        body  == IF hex THEN SubSeq(rest, 3, Len(rest)) ELSE rest
        n     == DigitPrefix(body, radix)
    IN  IF n = 0 THEN NaN
        ELSE Number(neg, DigitsValue(SubSeq(body, 1, n), radix), 1)

\* parseFloat(val): a sign, then Infinity or the longest decimal literal
\* digits[.digits] or .digits; what follows is ignored.
parseFloat(val) ==
    LET signed == val # <<>> /\ Head(val) \in {"-", "+"}
        neg   == signed /\ Head(val) = "-"
        rest  == IF signed THEN Tail(val) ELSE val
        n     == DigitPrefix(rest, 10)
        after == SubSeq(rest, n + 1, Len(rest))
        point == after # <<>> /\ Head(after) = "."
        f     == IF point THEN DigitPrefix(Tail(after), 10) ELSE 0
        frac  == IF point THEN SubSeq(Tail(after), 1, f) ELSE <<>>
    IN  IF StartsWith(rest, <<"I", "n", "f", "i", "n", "i", "t", "y">>) THEN [Number(neg, 0, 1) EXCEPT !.inf = TRUE]
        ELSE IF n = 0 /\ f = 0 THEN NaN
        ELSE Number(neg, DigitsValue(SubSeq(rest, 1, n) \o frac, 10), Pow10(f))

\* x > k, x >= k and x <= k of JavaScript for an integer k >= 0: false for NaN.
Greater(x, k) ==
    /\ ~x.nan
    /\ ~x.neg
    /\ x.inf \/ x.num > k * x.den

GreaterOrEqual(x, k) ==
    /\ ~x.nan
    /\ IF x.neg THEN ~x.inf /\ x.num = 0 /\ k = 0
       ELSE x.inf \/ x.num >= k * x.den

LessOrEqual(x, k) ==
    /\ ~x.nan
    /\ x.neg \/ (~x.inf /\ x.num <= k * x.den)

\* The refinements of formSchema.
AmountRefineAny(val) == ~parseFloat(val).nan

AmountRefine(val) == Greater(parseFloat(val), 0)

InterestRateRefine(val) ==
    GreaterOrEqual(parseFloat(val), 0) /\ LessOrEqual(parseFloat(val), 100)

InstallmentsCountRefine(val) ==
    GreaterOrEqual(parseInt(val), MinInstallments) /\ LessOrEqual(parseInt(val), MaxInstallments)

formSchema(data) ==
    /\ AmountRefine(data.amount)
    /\ InterestRateRefine(data.interestRate)
    /\ InstallmentsCountRefine(data.installmentsCount)

FormStrings ==
    UNION {[1..n -> {"0", "1", "4", "8", "9", ".", "-", "x"}] : n \in 0..MaxLen}
        \cup {<<"I", "n", "f", "i", "n", "i", "t", "y">>,
              <<"-", "I", "n", "f", "i", "n", "i", "t", "y">>}

\* The form's default strings, with an amount filled in.
DefaultData ==
    [amount |-> <<"1", "0", "0">>, interestRate |-> <<"0">>,
     installmentsCount |-> <<"1", "2">>]

InitSchema ==
    /\ clients = {}
    /\ loans = {}
    /\ installments = {}
    /\ verifications = {}
    /\ nextId = [clients |-> 1, loans |-> 1, installments |-> 1, tokens |-> 1]
    /\ now = 0
    /\ pc = [s \in Sessions |-> "idle"]
    /\ loc = [s \in Sessions |-> Idle]
    /\ \E field \in DOMAIN DefaultData, val \in FormStrings :
          call = [step |-> "form", data |-> [DefaultData EXCEPT ![field] = val]]

\* form.handleSubmit(onSubmit): the resolver runs formSchema, and onSubmit is
\* called only with data that passes.
HandleSubmit ==
    /\ call.step = "form"
    /\ call' = [call EXCEPT !.step = IF formSchema(call.data) THEN "valid" ELSE "invalid"]
    /\ UNCHANGED dbvars

\* onSubmit up to the insert of the loan: the client is new, and the loan row
\* holds the parsed numbers. An infinite amount is sent as JSON null, which
\* the NOT NULL columns refuse.
OnSubmitLoan ==
    /\ call.step = "valid"
    /\ LET amount == parseFloat(call.data.amount)
           interestRate == parseFloat(call.data.interestRate)
           installmentsCount == parseInt(call.data.installmentsCount)
           client == ClientRow(nextId.clients, "u1", [cpf |-> "11111111111"] @@ TypedContact)
           loan == [id |-> nextId.loans, client_id |-> client.id,
                    original_amount |-> amount, interest_rate |-> interestRate,
                    installments_count |-> installmentsCount]
       IN  /\ clients' = clients \cup {client}
           /\ IF amount.inf \/ interestRate.inf
              THEN /\ call' = [call EXCEPT !.step = "error"]
                   /\ UNCHANGED loans
                   /\ nextId' = [nextId EXCEPT !.clients = @ + 1]
              ELSE /\ call' = [call EXCEPT !.step = "loan"]
                   /\ loans' = loans \cup {loan}
                   /\ nextId' = [nextId EXCEPT !.clients = @ + 1, !.loans = @ + 1]
    /\ UNCHANGED <<installments, verifications, now, pc, loc>>

NextSchema == HandleSubmit \/ OnSubmitLoan

SpecSchema == InitSchema /\ [][NextSchema]_vars

(***************************************************************************)
(* identity_verifications as an unauthenticated caller of the REST API     *)
(* reaches it: the public SELECT and UPDATE policies.  A row is identified *)
(* by its place in the list; the token column is UNIQUE.                   *)
(***************************************************************************)
PublicStatuses == {"pending", "completed", "expired"}

\* What a PATCH may carry: each column either left out ("keep" for the status,
\* NULL for the others) or given a value.
NoPatch == [status |-> "keep", token |-> NULL, loan_id |-> NULL, photo_url |-> NULL]

Patches ==
    {[NoPatch EXCEPT !.status = "completed", !.photo_url = 2],
     [NoPatch EXCEPT !.status = "expired"],
     [NoPatch EXCEPT !.token = 3],
     [NoPatch EXCEPT !.loan_id = 1]}

\* USING of "Public can update verification with valid token".
PublicUpdateUsing(old) == old.status = "pending"

\* WITH CHECK of the policy, on the new row.
PublicUpdateWithCheck(new) ==
    /\ new.status \in {"pending", "completed"}
    /\ new.token = new.token

\* The row after SET.
Patched(v, patch) ==
    [v EXCEPT !.status    = IF patch.status = "keep" THEN @ ELSE patch.status,
              !.token     = IF patch.token = NULL THEN @ ELSE patch.token,
              !.loan_id   = IF patch.loan_id = NULL THEN @ ELSE patch.loan_id,
              !.photo_url = IF patch.photo_url = NULL THEN @ ELSE patch.photo_url]

\* The table's own constraints: the status CHECK, the loan reference and the
\* UNIQUE token.
TableAccepts(rows) ==
    /\ \A k \in DOMAIN rows :
          /\ rows[k].status \in PublicStatuses
          /\ \E l \in loans : l.id = rows[k].loan_id
    /\ \A j, k \in DOMAIN rows : rows[j].token = rows[k].token => j = k

PublicCall(op, filter, patch, before, after, error) ==
    [step |-> "public", op |-> op, filter |-> filter, patch |-> patch,
     before |-> before, after |-> after, error |-> error]

PublicVerifications ==
    <<PendingVerification, [PendingVerification EXCEPT !.token = 2]>>

InitPublic ==
    /\ clients = {LegacyClient, [OtherClient EXCEPT !.id = 1]}
    /\ loans = {LegacyLoan, [OtherLoan EXCEPT !.id = 1, !.client_id = 1]}
    /\ installments = {}
    /\ verifications = {PublicVerifications[k] : k \in DOMAIN PublicVerifications}
    /\ nextId = [clients |-> 2, loans |-> 2, installments |-> 2, tokens |-> 3]
    /\ now = 0
    /\ pc = [s \in Sessions |-> "idle"]
    /\ loc = [s \in Sessions |-> Idle]
    /\ call = PublicCall("none", NULL, NoPatch, PublicVerifications,
                         PublicVerifications, FALSE)

\* GET /identity_verifications with the anon key: USING (true).
PublicSelect(filter) ==
    /\ call' = PublicCall("select", filter, NoPatch, call.after, call.after, FALSE)
    /\ UNCHANGED dbvars

\* PATCH /identity_verifications[?token=eq.filter] with the anon key.
PublicUpdate(filter, patch) ==
    LET rows    == call.after
        matches == {k \in DOMAIN rows :
                       /\ filter = NULL \/ rows[k].token = filter
                       /\ PublicUpdateUsing(rows[k])}
        new     == [k \in DOMAIN rows |->
                       IF k \in matches THEN Patched(rows[k], patch) ELSE rows[k]]
        ok      == /\ \A k \in matches : PublicUpdateWithCheck(new[k])
                   /\ TableAccepts(new)
    IN  /\ call' = PublicCall("update", filter, patch, rows,
                              IF ok THEN new ELSE rows, ~ok)
        /\ verifications' = IF ok THEN {new[k] : k \in DOMAIN new} ELSE verifications
        /\ UNCHANGED <<clients, loans, installments, nextId, now, pc, loc>>

\* The token filter of a request: none, a token of the table, or another.
NextPublic ==
    \/ \E filter \in {NULL, 1, 3} : PublicSelect(filter)
    \/ \E filter \in {NULL, 1, 3}, patch \in Patches : PublicUpdate(filter, patch)

SpecPublic == InitPublic /\ [][NextPublic]_vars

(***************************************************************************)
(* The VerifyIdentity page of two visitors holding the same link, from the *)
(* moment checkVerificationStatus has set the page status to pending.      *)
(* `call` holds the state of each page and the files of the bucket; the    *)
(* clock is in days.                                                       *)
(***************************************************************************)
Page ==
    [step |-> "page",
     status |-> [s \in Sessions |-> "pending"],
     isUploading |-> [s \in Sessions |-> FALSE],
     capturedImage |-> [s \in Sessions |-> NULL],
     response |-> [s \in Sessions |-> 0],
     storage |-> {}]

InitUpload ==
    /\ clients = {LegacyClient}
    /\ loans = {LegacyLoan}
    /\ installments = LegacyInstallments
    /\ verifications = {PendingVerification}
    /\ nextId = [clients |-> 1, loans |-> 1, installments |-> 1, tokens |-> 2]
    /\ now = 0
    /\ pc = [s \in Sessions |-> "idle"]
    /\ loc = [s \in Sessions |-> Idle]
    /\ call = Page

\* capturePhoto / handleFileSelect: setCapturedImage(..).
capturePhoto(s, image) ==
    /\ pc[s] = "idle"
    /\ call.status[s] = "pending"
    /\ call.capturedImage[s] = NULL
    /\ call' = [call EXCEPT !.capturedImage[s] = image]
    /\ UNCHANGED dbvars

\* retakePhoto: setCapturedImage(null); the button is disabled while uploading.
retakePhoto(s) ==
    /\ pc[s] = "idle"
    /\ call.status[s] = "pending"
    /\ call.capturedImage[s] # NULL
    /\ ~call.isUploading[s]
    /\ call' = [call EXCEPT !.capturedImage[s] = NULL]
    /\ UNCHANGED dbvars

\* catch and finally of uploadPhoto: the error toast, setIsUploading(false).
UploadFailedDropsImage(page, s) ==
    [page EXCEPT !.isUploading[s] = FALSE, !.capturedImage[s] = NULL]

UploadFailed(page, s) == [page EXCEPT !.isUploading[s] = FALSE]

\* uploadPhoto up to the first request: the button is shown on the pending
\* page with a captured image and is disabled while uploading.
uploadPhoto(s) ==
    /\ pc[s] = "idle"
    /\ call.status[s] = "pending"
    /\ call.capturedImage[s] # NULL
    /\ ~call.isUploading[s]
    /\ pc' = [pc EXCEPT ![s] = "storage_upload"]
    /\ loc' = [loc EXCEPT ![s] = [op |-> "upload", token |-> PendingVerification.token,
                                  photo |-> call.capturedImage[s]]]
    /\ call' = [call EXCEPT !.isUploading[s] = TRUE, !.response[s] = 0]
    /\ UNCHANGED <<clients, loans, installments, verifications, nextId, now>>

\* supabase.storage.from("identity-photos").upload(..); if (uploadError) throw.
StorageUpload(s, ok) ==
    /\ pc[s] = "storage_upload"
    /\ IF ok
       THEN /\ call' = [call EXCEPT !.storage = @ \cup {loc[s].photo}]
            /\ pc' = [pc EXCEPT ![s] = "post_verify"]
            /\ UNCHANGED loc
       ELSE /\ call' = UploadFailed(call, s)
            /\ Return(s)
    /\ UNCHANGED <<clients, loans, installments, verifications, nextId, now>>

\* The answer of the function to POST ?token=.. {photo_url} for the rows it
\* reads; selectOk and updateOk tell whether its two requests to the database
\* succeed.
PostCode(rows, t, selectOk, updateOk) ==
    IF ~selectOk \/ rows = {} THEN 404
    ELSE LET verification == CHOOSE v \in rows : TRUE
         IN  IF verification.status # "pending" THEN 400
             ELSE IF Expired(verification.created_at, t) THEN 410
             ELSE IF ~updateOk THEN 500
             ELSE 200

\* fetch(.. verify-identity?token=.., POST): the request may not get through
\* (fetch throws); otherwise the function answers and updateResponse.ok
\* decides.
PostVerify(s, net, selectOk, updateOk) ==
    /\ pc[s] = "post_verify"
    /\ LET code == PostCode({v \in verifications : v.token = loc[s].token}, now,
                            selectOk, updateOk)
       IN  IF ~net
           THEN /\ call' = UploadFailed(call, s)
                /\ UNCHANGED verifications
           ELSE /\ verifications' = IF code = 200
                                    THEN UpdatePending(loc[s].token, loc[s].photo, now)
                                    ELSE verifications
                /\ call' = IF code = 200
                           THEN [call EXCEPT !.status[s] = "completed",
                                             !.isUploading[s] = FALSE,
                                             !.response[s] = code]
                           ELSE [UploadFailed(call, s) EXCEPT !.response[s] = code]
    /\ Return(s)
    /\ UNCHANGED <<clients, loans, installments, nextId, now>>

NextUpload ==
    \/ \E s \in Sessions :
          \/ \E image \in {1, 2} : capturePhoto(s, image)
          \/ retakePhoto(s)
          \/ uploadPhoto(s)
          \/ \E ok \in BOOLEAN : StorageUpload(s, ok)
          \/ \E net, selectOk, updateOk \in BOOLEAN :
                PostVerify(s, net, selectOk, updateOk)
    \/ \E t \in VerifyInstants : Tick(t)

SpecUpload == InitUpload /\ [][NextUpload]_vars

(***************************************************************************)
(* Properties                                                              *)
(***************************************************************************)
Abs(x) == IF x < 0 THEN -x ELSE x

RECURSIVE SumAmounts(_)
SumAmounts(rows) ==
    IF rows = <<>> THEN 0 ELSE Head(rows).amount + SumAmounts(Tail(rows))

\* C3: the list onSubmit builds for a count in 1..48 has exactly count
\* entries, entry k (1-based) is numbered k, the due dates never decrease
\* with the number, and every row is stored unpaid with paid_at NULL.
C3_ScheduleShape ==
    call.step \in {"built", "stored"} =>
        /\ Len(call.built) = call.form.count
        /\ \A k \in 1..Len(call.built) : call.built[k].installment_number = k
        /\ \A k \in 1..(Len(call.built) - 1) :
              DayNumber(call.built[k].due_date) <= DayNumber(call.built[k + 1].due_date)
        /\ call.step = "stored" =>
              /\ Cardinality(call.stored) = call.form.count
              /\ {r.installment_number : r \in call.stored} = 1..call.form.count
              /\ \A r \in call.stored : r.paid = FALSE /\ r.paid_at = NULL

C3_Witness ==
    /\ call.step = "stored"
    /\ call.form.count = MaxInstallments
    /\ call.form.firstDueDate = Date(2024, 1, 31)
    /\ Cardinality(call.stored) = MaxInstallments

\* The date the month-clamping rule gives: i months after the first due
\* date's month, on day min(day, days in that month).
ClampedDueDate(first, i) ==
    LET t   == MonthPlus(first, i)
        dim == DaysInMonth(t.y, t.m)
    IN  Date(t.y, t.m, IF first.d <= dim THEN first.d ELSE dim)

\* C4: installment k is due in the month k-1 months after the first due
\* date's month, on day min(day, days in that month).
C4_DueDateClamped ==
    call.step # "form" =>
        \A k \in 1..Len(call.built) :
            call.built[k].due_date = ClampedDueDate(call.form.firstDueDate, k - 1)

\* C8 as stated: the stored total equals principal * (1 + rate/100) exactly,
\* is never below the principal, and the installments come from the total.
C8_StoredTotalExact ==
    call.step # "form" =>
        /\ 1000 * call.loan.amount = call.form.principal * (1000 + call.form.rate)
        /\ call.loan.amount >= call.form.principal
        /\ \A k \in 1..Len(call.built) :
              2 * Abs(1000 * call.form.count * call.built[k].amount
                      - call.form.principal * (1000 + call.form.rate))
                 <= 1000 * call.form.count

\* C8 amended: the computed total is principal * (1 + rate/100); the stored
\* amount is that total rounded to the cent (within half a cent of it) and is
\* never below the principal; each installment is the total (not the
\* principal) divided by the count, to the cent.
C8_StoredTotalRounded ==
    call.step # "form" =>
        /\ call.total = call.form.principal * (1000 + call.form.rate)
        /\ call.total >= 1000 * call.form.principal
        /\ 2 * Abs(1000 * call.loan.amount
                   - call.form.principal * (1000 + call.form.rate)) <= 1000
        /\ call.loan.original_amount = call.form.principal
        /\ call.loan.amount >= call.form.principal
        /\ \A k \in 1..Len(call.built) :
              2 * Abs(1000 * call.form.count * call.built[k].amount
                      - call.form.principal * (1000 + call.form.rate))
                 <= 1000 * call.form.count

C8_Witness ==
    /\ call.step = "stored"
    /\ call.form.rate = 333
    /\ 1000 * call.loan.amount # call.total
    /\ call.loan.amount > call.form.principal

\* C10: every installment amount is total/count rounded to the cent, all
\* installments of a loan carry the same amount, and the sum of the
\* installments is within count cents of the total.
C10_InstallmentAmounts ==
    call.step # "form" =>
        /\ \A k \in 1..Len(call.built) :
              2 * Abs(1000 * call.form.count * call.built[k].amount - call.total)
                 <= 1000 * call.form.count
        /\ \A j, k \in 1..Len(call.built) : call.built[j].amount = call.built[k].amount
        /\ Abs(1000 * SumAmounts(call.built) - call.total) <= 1000 * call.form.count
        /\ Abs(SumAmounts(call.built) - call.loan.amount) <= call.form.count

C10_Witness ==
    /\ call.step = "built"
    /\ call.form.count = MaxInstallments
    /\ 1000 * SumAmounts(call.built) # call.total
    /\ SumAmounts(call.built) > 0

\* The calendar day of instant t in the zone tz, as a day number.
LocalDayNumber(t, tz) == (t + tz) \div 24

\* Overdue as the specification defines it: unpaid and due strictly before
\* the current calendar day.
OverdueByDay(i, t, tz) == ~i.paid /\ DayNumber(i.due_date) < LocalDayNumber(t, tz)

ExpectedLoanStatus(loan, t, tz) ==
    IF \A k \in 1..Len(loan.installments) : loan.installments[k].paid THEN "paid_off"
    ELSE IF \E k \in 1..Len(loan.installments) : OverdueByDay(loan.installments[k], t, tz)
         THEN "overdue"
         ELSE "on_time"

\* C5: getLoanStatus is paid_off iff every installment is paid (the empty
\* list included), else overdue iff an unpaid installment is due before the
\* start of the current local day, else on_time; this for every
\* getLoanStatus of the source.
C5_LoanStatusByDay ==
    "list" \in call.done =>
        \A k \in 1..Len(call.client.loans) :
            /\ call.loanStatus[k] = ExpectedLoanStatus(call.client.loans[k], call.t, call.tz)
            /\ call.loanStatusLoansList[k]
                  = ExpectedLoanStatus(call.client.loans[k], call.t, call.tz)

\* C6: at every place that classifies installments as overdue, what is
\* counted is unpaid and due strictly before the current calendar day.
C6_OverdueOnlyBeforeToday ==
    LET truly == {i \in InstallmentsOf(call.client) : OverdueByDay(i, call.t, call.tz)}
    IN  /\ "list" \in call.done =>
              /\ call.badges \subseteq truly
              /\ \A k \in 1..Len(call.client.loans) :
                    call.overdueInstallments[k] \subseteq truly
        /\ "dashboard" \in call.done => call.overdueCount <= Cardinality(truly)
        /\ "alert" \in call.done => call.overdueData \subseteq truly

\* C7: getClientStatus is no_loans without loans, else overdue if some
\* loan is overdue, else paid_off if all loans are paid_off, else on_time.
C7_ClientStatusPrecedence ==
    "list" \in call.done =>
        LET st == call.loanStatus
            n  == Len(call.client.loans)
        IN  /\ call.clientStatus =
                  IF n = 0 THEN "no_loans"
                  ELSE IF \E k \in 1..n : st[k] = "overdue" THEN "overdue"
                  ELSE IF \A k \in 1..n : st[k] = "paid_off" THEN "paid_off"
                  ELSE "on_time"
            /\ n = 0 => call.clientStatus = "no_loans"
            /\ st = <<"overdue", "paid_off">> => call.clientStatus = "overdue"
            /\ st = <<"paid_off", "paid_off">> => call.clientStatus = "paid_off"

C7_Witness ==
    /\ "list" \in call.done
    /\ call.loanStatus = <<"overdue", "paid_off">>
    /\ call.clientStatus = "overdue"

\* The stored installments of a loan.
RowsOf(l) == {i \in installments : i.loan_id = l.id}

Quiescent == \A s \in Sessions : pc[s] = "idle"

\* C1: whenever no handler is in the middle of its requests, every stored
\* loan has exactly installments_count installments, numbered
\* 1..installments_count without gaps or duplicates.
C1_ExactlyCountInstallments ==
    Quiescent =>
        \A l \in loans :
            /\ Cardinality(RowsOf(l)) = l.installments_count
            /\ {i.installment_number : i \in RowsOf(l)} = 1..l.installments_count

\* C2: the number of stored installments of a loan is 0 or its
\* installments_count, never strictly between.
C2_NoPartialInstallmentSet ==
    \A l \in loans : Cardinality(RowsOf(l)) \in {0, l.installments_count}

C2_Witness ==
    \E l \in loans :
        /\ l.installments_count >= 2
        /\ Cardinality(RowsOf(l)) = l.installments_count
        /\ \E i \in RowsOf(l) : i.paid

\* amount = original_amount * (1 + interest_rate/100) to the cent.
AmountMatchesRate(l) ==
    2 * Abs(1000 * l.amount - l.original_amount * (1000 + l.interest_rate)) <= 1000

\* C9: every stored loan, the loans older than the original_amount and
\* interest_rate columns included, has amount = original_amount *
\* (1 + interest_rate/100) to the cent, and no step changes the amount,
\* original_amount, interest_rate or installments_count of a loan that
\* stays stored.
C9_LoanAmountInvariant ==
    /\ [](\A l \in loans : AmountMatchesRate(l))
    /\ [][\A l \in loans : \A m \in loans' :
              m.id = l.id =>
                  /\ m.amount = l.amount
                  /\ m.original_amount = l.original_amount
                  /\ m.interest_rate = l.interest_rate
                  /\ m.installments_count = l.installments_count]_vars

C9_Witness ==
    /\ LegacyLoan \in loans
    /\ \E l \in loans : l.interest_rate > 0 /\ l.amount > l.original_amount
    /\ \E i \in installments : i.paid

\* The clients of the session's account that hold the CPF of its form.
ClientsWithFormCpf(s) ==
    {c \in clients : c.cpf = loc[s].form.cpf /\ c.user_id = SessionUser[s]}

UniqueOwnerCpf ==
    \A c1, c2 \in clients :
        (c1.user_id = c2.user_id /\ c1.cpf = c2.cpf) => c1 = c2

\* A registration never holds the id of a client of another account.
NeverReusesOtherOwner ==
    \A s \in Sessions :
        (pc[s] \in {"insert_loan", "insert_installments"}) =>
            \A c \in clients : c.id = loc[s].clientId => c.user_id = SessionUser[s]

\* C11: at most one client exists per (owner, CPF); a registration whose
\* CPF already belongs to a client of the owner goes on to insert its loan
\* for that client and adds no client; a client of another owner with the
\* same CPF is never the one a registration uses.
C11_OneClientPerOwnerCpf ==
    /\ [](UniqueOwnerCpf /\ NeverReusesOtherOwner)
    /\ [][\A s \in Sessions :
            (/\ pc[s] \in {"lookup_client", "insert_client"}
             /\ pc'[s] # pc[s]
             /\ ClientsWithFormCpf(s) # {})
                => /\ clients' = clients
                   /\ pc'[s] = "insert_loan"
                   /\ loc'[s].clientId \in {c.id : c \in ClientsWithFormCpf(s)}]_vars

\* C12: no loan is stored without its client, no installment without its
\* loan and no identity verification without its loan.
C12_ReferentialIntegrity ==
    /\ \A l \in loans : \E c \in clients : c.id = l.client_id
    /\ \A i \in installments : \E l \in loans : l.id = i.loan_id
    /\ \A v \in verifications : \E l \in loans : l.id = v.loan_id

\* A client with a registered loan and its installments was deleted.
C12_Witness ==
    /\ clients = {}
    /\ loans = {}
    /\ installments = {}
    /\ nextId.loans > 1
    /\ nextId.installments > 1

\* C13: a step of handleDeleteLoan removes no loan but the one it was
\* called for and no installment but that loan's; its loan request never
\* removes a client, and its client request removes the client only when no
\* loan of that client is left.
C13_DeleteLoanOnlyThatLoan ==
    [][\A s \in Sessions :
         (pc[s] \in {"delete_loan", "delete_client"} /\ pc'[s] # pc[s]) =>
             /\ \A l \in loans \ loans' : l.id = loc[s].loanId
             /\ \A i \in installments \ installments' : i.loan_id = loc[s].loanId
             /\ pc[s] = "delete_loan" => clients' = clients
             /\ clients' # clients =>
                    ~\E l \in loans : l.client_id = loc[s].clientId]_vars

\* C14: an installment is paid exactly when its paid_at is set.
C14_PaidIffPaidAt ==
    \A i \in installments : i.paid <=> (i.paid_at # NULL)

C14_Witness ==
    /\ \E i \in installments : i.paid /\ i.paid_at # NULL
    /\ \E i \in installments : ~i.paid /\ i.paid_at = NULL
    /\ nextId.installments > 1

\* C15: the paid_at of a stored installment changes only in a step that
\* turns its paid from false to true; paying a paid installment again
\* leaves the first stamp.
C15_PaidAtWrittenOnce ==
    [][\A i \in installments : \A j \in installments' :
          (j.id = i.id /\ j.paid_at # i.paid_at) => (~i.paid /\ j.paid)]_vars

\* C16: a step changes of a stored installment nothing but paid and
\* paid_at, never sets paid back to false, changes at most one installment,
\* and an installment leaves the table only together with its loan.
C16_OnlyMarkedPaid ==
    [][/\ \A i \in installments : \A j \in installments' :
             j.id = i.id =>
                 /\ j.installment_number = i.installment_number
                 /\ j.amount = i.amount
                 /\ j.due_date = i.due_date
                 /\ j.loan_id = i.loan_id
                 /\ i.paid => j.paid
       /\ Cardinality({i \in installments :
                          /\ i \notin installments'
                          /\ \E j \in installments' : j.id = i.id}) <= 1
       /\ \A i \in installments :
             (~\E j \in installments' : j.id = i.id) =>
                 /\ \E l \in loans : l.id = i.loan_id
                 /\ ~\E l \in loans' : l.id = i.loan_id]_vars

\* An installment of a registered loan is paid and an older loan is gone.
C16_Witness ==
    /\ \E i \in installments : i.paid /\ i.loan_id # LegacyLoan.id
    /\ LegacyLoan \notin loans
    /\ LegacyInstallments \cap installments = {}

\* C17: a step changes a verification record only from pending to
\* completed; a completed record, its photo_url and verified_at included,
\* never changes again, however the POST requests interleave.
C17_CompletedOnce ==
    [][\A v \in verifications : \E w \in verifications' :
          /\ w.token = v.token
          /\ w # v => (v.status = "pending" /\ w.status = "completed")
          /\ v.status = "completed" =>
                (w.photo_url = v.photo_url /\ w.verified_at = v.verified_at
                 /\ w.status = "completed")]_vars

\* A second POST ran its update after the record was completed by another.
C17_Witness ==
    /\ call.step = "response" /\ call.method = "POST" /\ call.code = 200
    /\ \E v \in verifications :
          /\ v.token = call.token
          /\ v.status = "completed"
          /\ v.verified_at < call.t

\* C18: a GET for a token created more than 7 days before the request
\* answers 410 / expired, never valid; a POST that finds the token older
\* than 7 days goes no further, so no record is completed by a request that
\* saw it expired; a pending token of 7 days or less is valid for GET and is
\* let through to the update by POST, never answered 410.
C18_ExpiredNeverAccepted ==
    /\ [](\A v \in verifications :
            (/\ call.step = "response"
             /\ call.method = "GET"
             /\ call.token = v.token
             /\ ~call.dbError) =>
                /\ call.t - v.created_at > ExpiryDays =>
                      /\ call.code = 410
                      /\ call.status = "expired"
                      /\ ~call.valid
                      /\ call.page = "expired"
                /\ (call.t - v.created_at <= ExpiryDays /\ v.status = "pending") =>
                      (call.code = 200 /\ call.valid))
    /\ [][/\ \A s \in Sessions :
               (pc[s] = "idle" /\ pc'[s] = "verify_update") =>
                   \E v \in verifications :
                       /\ v.token = loc'[s].token
                       /\ v.status = "pending"
                       /\ now - v.created_at <= ExpiryDays
          /\ \A v \in verifications :
               v \notin verifications' =>
                   \E s \in Sessions :
                       /\ pc[s] = "verify_update"
                       /\ loc[s].token = v.token
                       /\ loc[s].checkedAt - v.created_at <= ExpiryDays
          /\ (call' # call /\ call'.method = "POST" /\ call'.code = 410) =>
                \E v \in verifications :
                    v.token = call'.token /\ call'.t - v.created_at > ExpiryDays]_vars

\* The stored pending token was asked for on day 8 and refused.
C18_Witness ==
    /\ call.step = "response"
    /\ call.method = "GET"
    /\ call.code = 410
    /\ \E v \in verifications :
          v.token = call.token /\ v.status = "pending" /\ call.t - v.created_at > ExpiryDays

\* C19: GET answers 400 without a token and 404 for a token no record
\* has; for a record that is not expired it answers the record's status
\* with valid exactly for pending; the page shows the capture form (pending)
\* exactly when the answer was valid, else completed, expired or not_found.
C19_GetAnswersAndPage ==
    (call.step = "response" /\ call.method = "GET") =>
        /\ call.token = NULL => (call.code = 400 /\ call.page = "not_found")
        /\ (call.token # NULL /\ ~\E v \in verifications : v.token = call.token) =>
              (call.code = 404 /\ call.page = "not_found")
        /\ \A v \in verifications :
              (/\ v.token = call.token
               /\ ~call.dbError
               /\ call.t - v.created_at <= ExpiryDays) =>
                  /\ call.code = 200
                  /\ \/ call.status = v.status
                     \/ call.status = "pending" /\ v.status = "completed"
                  /\ call.valid <=> call.status = "pending"
        /\ call.page = "pending" <=> (call.code = 200 /\ call.valid)
        /\ call.page \in {"pending", "completed", "expired", "not_found"}
        /\ call.page = "completed" <=> (call.code = 200 /\ call.status = "completed")
        /\ call.page = "expired" <=> call.code = 410

C19_Witness ==
    /\ call.step = "response"
    /\ call.method = "GET"
    /\ call.token = PendingVerification.token
    /\ call.code = 200
    /\ call.valid
    /\ call.page = "pending"

\* Ownership read off the rows themselves, in given tables.
ClientOf(u, c) == c.user_id = u
LoanOf(u, l, cs) == \E c \in cs : c.id = l.client_id /\ c.user_id = u
InstallmentOf(u, i, ls, cs) == \E l \in ls : l.id = i.loan_id /\ LoanOf(u, l, cs)

\* C20: whatever request a user sends, the rows it returns and the rows it
\* inserts, changes or deletes are clients with the user's id as user_id,
\* loans of such clients and installments of such loans: nothing of another
\* user is read or changed.
C20_OwnRowsOnly ==
    [][LET u == call'.user
       IN  /\ \A c \in clients \ clients' : ClientOf(u, c)
           /\ \A c \in clients' \ clients : ClientOf(u, c)
           /\ \A l \in loans \ loans' : LoanOf(u, l, clients)
           /\ \A l \in loans' \ loans : LoanOf(u, l, clients')
           /\ \A i \in installments \ installments' :
                 InstallmentOf(u, i, loans, clients)
           /\ \A i \in installments' \ installments :
                 InstallmentOf(u, i, loans', clients')
           /\ \A c \in call'.seen.clients : ClientOf(u, c)
           /\ \A l \in call'.seen.loans : LoanOf(u, l, clients)
           /\ \A i \in call'.seen.installments :
                 InstallmentOf(u, i, loans, clients)]_vars

\* The first user removed its own client; its delete of the second user's
\* client left that client, its loan and its installment in place.
C20_Witness ==
    /\ call.step = "api"
    /\ call.user = "u1"
    /\ call.op = "delete_client"
    /\ call.id = 1
    /\ LegacyClient \notin clients
    /\ \E c \in clients : c.id = 1 /\ c.user_id = "u2"
    /\ \E l \in loans : l.client_id = 1
    /\ \E i \in installments : i.loan_id = 1

\* The overdue rows of one client, found by following loan_id and client_id
\* in the tables, and the sum of their amounts.
OverdueRowsOfClient(c) ==
    {i \in overdueData(installments, now) :
        \E l \in loans : l.id = i.loan_id /\ l.client_id = c.id}

RECURSIVE SumAmountsOfRows(_)
SumAmountsOfRows(rows) ==
    IF rows = {} THEN 0
    ELSE LET i == CHOOSE r \in rows : TRUE
         IN  i.amount + SumAmountsOfRows(rows \ {i})

\* C21: the grouping of OverdueAlert has one group for each client that has an
\* overdue unpaid installment among the rows of the query and no other group;
\* the group's count is the number of that client's rows, over all of its
\* loans, and its total is the sum of their amounts.
C21_GroupsByClient ==
    call.step = "alert_groups" =>
        /\ DOMAIN call.clientsWithOverdue =
              {c.id : c \in {c \in clients : OverdueRowsOfClient(c) # {}}}
        /\ \A c \in clients :
              OverdueRowsOfClient(c) # {} =>
                 /\ call.clientsWithOverdue[c.id].count =
                       Cardinality(OverdueRowsOfClient(c))
                 /\ call.clientsWithOverdue[c.id].total =
                       SumAmountsOfRows(OverdueRowsOfClient(c))

\* Client 1 has two overdue installments of 50.00 in two loans, client 2 one
\* of 30.00: the groups are {1: count 2, total 100.00; 2: count 1, total 30.00}.
C21_Witness ==
    /\ call.step = "alert_groups"
    /\ Cardinality(call.overdueData) = 3
    /\ DOMAIN call.clientsWithOverdue = {1, 2}
    /\ call.clientsWithOverdue[1] = [count |-> 2, total |-> 10000]
    /\ call.clientsWithOverdue[2] = [count |-> 1, total |-> 3000]

\* C22: every loan onSubmit stores from form strings that pass formSchema has
\* a principal greater than 0, an interest rate from 0 to 100 and an
\* installments count from 1 to 48.
C22_StoredLoanWithinBounds ==
    \A l \in loans :
        /\ ~l.original_amount.nan /\ ~l.original_amount.inf
        /\ ~l.original_amount.neg /\ l.original_amount.num > 0
        /\ ~l.interest_rate.nan /\ ~l.interest_rate.inf
        /\ l.interest_rate.neg => l.interest_rate.num = 0
        /\ l.interest_rate.num <= 100 * l.interest_rate.den
        /\ ~l.installments_count.nan /\ ~l.installments_count.neg
        /\ l.installments_count.den = 1
        /\ l.installments_count.num \in 1..48

\* A loan stored from the amount "1.4x": the schema accepted the string and
\* the principal stored is 1.4.
C22_Witness ==
    /\ call.step = "loan"
    /\ call.data.amount = <<"1", ".", "4", "x">>
    /\ \E l \in loans : l.original_amount = Number(FALSE, 14, 10)

\* C23: the due date stored for installment 1 is the calendar date of the
\* first due date selected in the form, in every time zone of the browser.
C23_FirstDueDateStoredAsSelected ==
    call.step \in {"built", "stored"} =>
        call.built[1].due_date = call.form.firstDueDate

\* C24: an update of identity_verifications made with the anon key changes a
\* row only when the request presents that row's token; it leaves the row's
\* token and loan_id as they were and its status in {pending, completed}.
C24_PublicUpdateNeedsToken ==
    [][call'.step = "public" =>
          \A k \in DOMAIN call'.before :
              call'.after[k] # call'.before[k] =>
                 /\ call'.filter = call'.before[k].token
                 /\ call'.after[k].token = call'.before[k].token
                 /\ call'.after[k].loan_id = call'.before[k].loan_id
                 /\ call'.after[k].status \in {"pending", "completed"}]_vars

\* C25: a POST that answers 200 "Verification completed" is the request whose
\* photo_url the record holds, also when two POSTs for one pending token
\* both read the record before either updates it.
C25_SuccessMeansStored ==
    [][\A s \in Sessions :
          (/\ pc[s] = "verify_update"
           /\ pc'[s] = "idle"
           /\ call'.method = "POST"
           /\ call'.code = 200) =>
              \E v \in verifications' :
                  /\ v.token = loc[s].token
                  /\ v.photo_url = loc[s].photo]_vars

\* C26: in one render of the client's loans, a loan's status is overdue
\* exactly when its list of overdue installments is not empty, and every
\* installment badged as overdue belongs to a loan whose status is overdue.
C26_StatusAgreesWithOverdueCount ==
    (call.step = "data" /\ "list" \in call.done) =>
        /\ \A k \in 1..Len(call.client.loans) :
              call.loanStatus[k] = "overdue" <=>
                  Cardinality(call.overdueInstallments[k]) > 0
        /\ \A i \in call.badges :
              \A k \in 1..Len(call.client.loans) :
                  call.client.loans[k].id = i.loan_id => call.loanStatus[k] = "overdue"

\* C27: for the same installments at the same instant, the overdue count of
\* the dashboard equals the number of rows the OverdueAlert query returns.
C27_DashboardCountEqualsAlertRows ==
    (call.step = "data" /\ {"dashboard", "alert"} \subseteq call.done) =>
        call.overdueCount = Cardinality(call.overdueData)

\* C28: no step of a registration changes the full_name, address, rg, phone
\* or cpf of a client that is already stored; a registration whose CPF
\* belongs to one of the owner's clients uses that client as it is, whatever
\* was typed in the form.
C28_ExistingClientUnchanged ==
    [][\A c \in clients : \A d \in clients' :
          d.id = c.id =>
             /\ d.full_name = c.full_name
             /\ d.address = c.address
             /\ d.rg = c.rg
             /\ d.phone = c.phone
             /\ d.cpf = c.cpf]_vars

\* A registration found its CPF among the owner's clients and went on with
\* that client, whose stored data differ from what was typed.
C28_Witness ==
    \E s \in Sessions :
        /\ pc[s] \in {"insert_loan", "insert_installments"}
        /\ \E c \in clients :
              /\ c.id = loc[s].clientId
              /\ c.user_id = SessionUser[s]
              /\ c.cpf = loc[s].form.cpf
              /\ c.full_name # loc[s].form.fullName
              /\ c.address # loc[s].form.address
              /\ c.rg # loc[s].form.rg
              /\ c.phone # loc[s].form.phone

\* The installments of the submission session s is running are stored.
SubmissionStored(s, rows) ==
    /\ loc[s].clientId # NULL
    /\ loc[s].loanId # NULL
    /\ Cardinality({i \in rows : i.loan_id = loc[s].loanId}) = loc[s].form.count

\* C29: onSubmit calls onSuccess exactly in the step in which the third of
\* its writes, after the client step and the loan insert, has succeeded, and
\* in no run that ends on a failing step; a form without a logged-in user
\* writes nothing and never starts loading; and whenever onSubmit is not
\* running, after a success as after a failure, isLoading is false.
C29_SuccessIffAllStepsSucceeded ==
    /\ [](\A s \in Sessions :
            /\ pc[s] = "idle" => ~call.isLoading[s]
            /\ call.user[s] = NoUser => pc[s] = "idle")
    /\ [][\A s \in Sessions :
            /\ (pc[s] # "idle" /\ pc'[s] = "idle") =>
                  /\ call'.onSuccess[s] = call.onSuccess[s] + 1
                        <=> SubmissionStored(s, installments')
                  /\ SubmissionStored(s, installments') =>
                        /\ \E c \in clients' : c.id = loc[s].clientId
                        /\ \E l \in loans' : /\ l.id = loc[s].loanId
                                             /\ l.client_id = loc[s].clientId
            /\ ~(pc[s] # "idle" /\ pc'[s] = "idle") =>
                  call'.onSuccess[s] = call.onSuccess[s]
            /\ (call.user[s] = NoUser /\ call'.toast[s] # call.toast[s]) =>
                  /\ UNCHANGED <<clients, loans, installments, verifications>>
                  /\ ~call'.isLoading[s]]_vars

\* One session finished a submission with onSuccess called and is no longer
\* loading, one ended on a failing step, or a logged-out one was refused.
C29_Witness ==
    /\ \E s \in Sessions :
          /\ call.onSuccess[s] = 1
          /\ call.toast[s] = "success"
          /\ pc[s] = "idle"
          /\ ~call.isLoading[s]
    /\ \E s \in Sessions :
          \/ call.user[s] = NoUser /\ call.toast[s] = "login"
          \/ call.toast[s] = "error" /\ pc[s] = "idle" /\ call.onSuccess[s] = 0

\* C30: the page status goes from pending to completed only in the step in
\* which the POST of uploadPhoto was answered with success, after its file
\* was stored in the bucket; an uploadPhoto that ends on a failed upload or
\* a failed POST leaves the page pending, not uploading and with the captured
\* image it was started with, so that uploadPhoto can be started again.
C30_CompletedOnlyAfterBothSucceeded ==
    /\ [](\A s \in Sessions :
            /\ pc[s] = "idle" => ~call.isUploading[s]
            /\ (/\ pc[s] = "idle"
                /\ call.status[s] = "pending"
                /\ call.capturedImage[s] # NULL) => ENABLED uploadPhoto(s))
    /\ [][\A s \in Sessions :
            /\ call'.status[s] # call.status[s] =>
                  /\ call.status[s] = "pending" /\ call'.status[s] = "completed"
                  /\ pc[s] = "post_verify"
                  /\ loc[s].photo \in call.storage
                  /\ call'.response[s] = 200
                  /\ \E v \in verifications' :
                        v.token = loc[s].token /\ v.status = "completed"
            /\ (pc[s] # "idle" /\ pc'[s] = "idle" /\ call'.response[s] # 200) =>
                  /\ call'.status[s] = "pending"
                  /\ ~call'.isUploading[s]
                  /\ call'.capturedImage[s] = loc[s].photo
                  /\ call'.capturedImage[s] # NULL]_vars

\* One page completed after its upload and POST succeeded; the other page's
\* uploadPhoto failed on the POST and the page is pending with its image.
C30_Witness ==
    \E s, t \in Sessions :
        /\ call.status[s] = "completed"
        /\ call.response[s] = 200
        /\ pc[t] = "idle"
        /\ call.status[t] = "pending"
        /\ call.response[t] = 400
        /\ call.capturedImage[t] # NULL
        /\ ~call.isUploading[t]

====
